---- MODULE Spec2Model ----
(***************************************************************************)
(* Model of ludwink/rust-backend: the Tokio acceptor and per-connection    *)
(* task of main.rs, the request/response task and router of router.rs,     *)
(* and the global bb8 pool configured in db.rs.                            *)
(*                                                                         *)
(* Strings are the byte strings of the program (ASCII requests), handled   *)
(* with Len, SubSeq and \o.                                                *)
(***************************************************************************)
EXTENDS Integers, Sequences, FiniteSets, TLC

(***************************************************************************)
(* Bounds of the model.                                                    *)
(***************************************************************************)
\* Connections a client opens against the listener.
MaxConns == 2
\* Tasks whose get_connection call is followed individually.
NTasks == 1
\* Calls of init_pool.
MaxInits == 2
\* Largest step by which the clock of the pool advances, in seconds.
TickSeconds == 5
\* Minutes by which a checked-out slot ages in one step.
AgeMinutes == 30

(***************************************************************************)
(* router.rs: constants of the HTTP response.                              *)
(***************************************************************************)
HTTP_OK == "HTTP/1.1 200 OK\r\n"
HTTP_NOT_FOUND == "HTTP/1.1 404 Not Found\r\n"
HTTP_INTERNAL_ERROR == "HTTP/1.1 500 Internal Server Error\r\n"
CONTENT_TYPE_JSON == "Content-Type: application/json\r\n"
CONTENT_LENGTH == "Content-Length: "

(***************************************************************************)
(* The str operations of the Rust standard library that process_route and  *)
(* extract_body_from_request call.                                         *)
(***************************************************************************)
CharAt(s, i) == SubSeq(s, i, i)

\* char::is_whitespace on the ASCII range.
IsWhitespace(c) == c \in {" ", "\t", "\n", "\r", "\f"}

\* str::find: the 0-based index of the first occurrence of pat, -1 for None.
Find(s, pat) ==
    LET hits == {i \in 1..(Len(s) - Len(pat) + 1) : SubSeq(s, i, i + Len(pat) - 1) = pat}
    IN  IF hits = {} THEN -1
        ELSE (CHOOSE i \in hits : \A j \in hits : i <= j) - 1

\* str::starts_with
StartsWith(s, p) == Len(s) >= Len(p) /\ SubSeq(s, 1, Len(p)) = p

\* str::strip_prefix(p).unwrap_or("")
StripPrefixOrEmpty(s, p) ==
    IF StartsWith(s, p) THEN SubSeq(s, Len(p) + 1, Len(s)) ELSE ""

\* request.lines().next().unwrap_or(""): the text before the first "\n",
\* without the "\r" that precedes that "\n"; "" for the empty string.
FirstLine(request) ==
    LET nl == Find(request, "\n")
    IN  IF nl = -1 THEN request
        ELSE IF nl >= 1 /\ CharAt(request, nl) = "\r" THEN SubSeq(request, 1, nl - 1)
        ELSE SubSeq(request, 1, nl)

\* str::split_whitespace().collect(): the maximal runs of non-whitespace.
RECURSIVE SplitFrom(_, _, _)
SplitFrom(s, i, cur) ==
    IF i > Len(s) THEN (IF cur = "" THEN <<>> ELSE <<cur>>)
    ELSE IF IsWhitespace(CharAt(s, i))
         THEN (IF cur = "" THEN <<>> ELSE <<cur>>) \o SplitFrom(s, i + 1, "")
         ELSE SplitFrom(s, i + 1, cur \o CharAt(s, i))

SplitWhitespace(s) == SplitFrom(s, 1, "")

(***************************************************************************)
(* router.rs: the handlers, extract_body_from_request and process_route.   *)
(* A handler's value is the triple (status_line, content_type, body).      *)
(***************************************************************************)
Triple(status_line, content_type, body) ==
    [status_line |-> status_line, content_type |-> content_type, body |-> body]

\* The body taken after the last "\r\n\r\n" of the request.
extract_body_from_request_Last(request) ==
    LET hits == {i \in 1..(Len(request) - 3) : SubSeq(request, i, i + 3) = "\r\n\r\n"}
    IN  IF hits = {} THEN ""
        ELSE SubSeq(request, (CHOOSE i \in hits : \A j \in hits : i >= j) + 4, Len(request))

extract_body_from_request(request) ==
    LET body_start == Find(request, "\r\n\r\n")
    IN  IF body_start # -1 THEN SubSeq(request, body_start + 5, Len(request)) ELSE ""

handle_get_all_users == Triple(HTTP_OK, CONTENT_TYPE_JSON, "{\"users\": []}")

handle_get_user(id) ==
    Triple(HTTP_OK, CONTENT_TYPE_JSON,
           "{\"id\": \"" \o id \o "\", \"name\": \"User Name\", \"email\": \"user@example.com\"}")

handle_create_user(body) == Triple(HTTP_OK, CONTENT_TYPE_JSON, body)

handle_get_all_products ==
    Triple(HTTP_INTERNAL_ERROR, CONTENT_TYPE_JSON, "{\"error\": \"Internal Server Error\"}")

\* The request line split into its whitespace-separated parts.
RequestParts(request) == SplitWhitespace(FirstLine(request))

\* The arm of `match (method, path)` that is taken, arms tried in order.
MatchArm(method, path) ==
    IF method = "GET" /\ path = "/" THEN "index"
    ELSE IF method = "GET" /\ path = "/users" THEN "handle_get_all_users"
    ELSE IF method = "GET" /\ StartsWith(path, "/users/") THEN "handle_get_user"
    ELSE IF method = "POST" /\ path = "/users" THEN "handle_create_user"
    ELSE IF method = "GET" /\ path = "/products" THEN "handle_get_all_products"
    ELSE "not_found"

\* The body of process_route once `parts` is collected.
RouteParts(parts, request) ==
    IF Len(parts) < 2
    THEN Triple(HTTP_NOT_FOUND, CONTENT_TYPE_JSON, "{\"error\": \"Invalid request\"}")
    ELSE LET method == parts[1]
             path == parts[2]
             arm == MatchArm(method, path)
         IN  CASE arm = "index" ->
                    Triple(HTTP_OK, CONTENT_TYPE_JSON, "{\"message\": \"Hello World!\"}")
               [] arm = "handle_get_all_users" -> handle_get_all_users
               [] arm = "handle_get_user" ->
                    handle_get_user(StripPrefixOrEmpty(path, "/users/"))
               [] arm = "handle_create_user" ->
                    handle_create_user(extract_body_from_request(request))
               [] arm = "handle_get_all_products" -> handle_get_all_products
               [] OTHER ->
                    Triple(HTTP_NOT_FOUND, CONTENT_TYPE_JSON, "{\"error\": \"Route not found\"}")

process_route(request) == RouteParts(RequestParts(request), request)

\* A response whose Content-Length counts the blank line with the body.
FormatResponse_CountsBlankLine(t) ==
    t.status_line \o t.content_type \o CONTENT_LENGTH \o ToString(Len(t.body) + 4)
        \o "\r\n\r\n" \o t.body

\* process_request_response: the bytes of the response built from the triple.
FormatResponse(t) ==
    t.status_line \o t.content_type \o CONTENT_LENGTH \o ToString(Len(t.body))
        \o "\r\n\r\n" \o t.body

\* main.rs: the response its connection task builds for every request.
MainResponse ==
    LET response_body == "{\"res\": \"Hello World\"}"
    IN  "HTTP/1.1 200 OK\r\nContent-Type: application/json\r\nContent-Length: "
            \o ToString(Len(response_body)) \o "\r\n\r\n" \o response_body

(***************************************************************************)
(* What clients send.  ServerRequests are the requests of the server       *)
(* specification; Requests, built from methods, paths, header blocks and   *)
(* bodies, are the inputs of the routing specification.                    *)
(***************************************************************************)
Methods == {"GET", "POST", "DELETE"}
Paths == {"/", "/users", "/users/", "/users/42", "/users/abc", "/users/1/2",
          "/products", "/nope", "/users?x=1"}
HeaderBlocks == {"", "Connection: keep-alive\r\n", "Content-Length: zz\r\n"}
Bodies == {"", "{\"name\":\"Ada\",\"age\":30}", "a\r\n\r\nb"}

\* Request lines that lack a method or a path, and a request cut before its separator.
ShortRequests == {"GET", "GET \r\n\r\n", "\r\n", " ", "\r\nGET / HTTP/1.1\r\n\r\n",
                  "POST /users HTTP/1.1\r\nContent-Length: 3"}

Requests ==
    {m \o " " \o p \o " HTTP/1.1\r\n" \o h \o "\r\n" \o b :
        m \in Methods, p \in Paths, h \in HeaderBlocks, b \in Bodies}
    \cup ShortRequests

ServerRequests ==
    {"GET / HTTP/1.1\r\nConnection: keep-alive\r\n\r\n",
     "GET /nope HTTP/1.1\r\n\r\n",
     "GET /users/1/2 HTTP/1.1\r\n\r\n",
     "GET"}

\* The requests of the user scenarios: a creation, the list and two lookups
\* of the same id.
UserRequests ==
    {"POST /users HTTP/1.1\r\n\r\n{\"name\":\"Ada\",\"age\":30}",
     "GET /users HTTP/1.1\r\n\r\n",
     "GET /users/42 HTTP/1.1\r\n\r\n",
     "GET /users/42 HTTP/1.1\r\nConnection: keep-alive\r\n\r\n",
     "GET /users/7 HTTP/1.1\r\n\r\n"}

\* The request of the load scenario.
LoadRequests == {"GET /users HTTP/1.1\r\n\r\n"}

Conns == 1..MaxConns

(***************************************************************************)
(* State.                                                                  *)
(*   acceptor   where main is: "binding", "accepting" (in the loop,        *)
(*              awaiting accept) or "exited" (main returned)               *)
(*   conn       each client connection: "closed" (not opened), "pending"   *)
(*              (in the listener's backlog) or "accepted"                  *)
(*   task       the body the connection's task runs: "none", "main" (the   *)
(*              block spawned in main.rs) or "router"                      *)
(*              (process_request_response)                                 *)
(*   pc         the task's position: "none", "Reading", "Parsed",          *)
(*              "Dispatching", "Writing", "Closed"                         *)
(*   request    the text read from the socket                              *)
(*   parts      the parts of the request line (process_route), <<>> before *)
(*   response   the bytes of the response the task built                   *)
(*   handler    the match arm process_route took ("none" before)           *)
(*   reads      completed calls of stream.read                             *)
(*   readResult what the call of stream.read returned: "none", "Ok(0)",    *)
(*              "Ok(n)" or "Err"                                           *)
(*   mainResult the error main returned, "" while it has returned none     *)
(*   wrote      responses handed to the socket by write_all                *)
(*   outcome    what the task's future returned                            *)
(*   stderr     the task's eprintln! message, "" when none                 *)
(***************************************************************************)
VARIABLES acceptor, mainResult, conn, task, pc, request, parts, response, handler, reads,
          readResult, wrote, outcome, stderr

serverVars == <<acceptor, mainResult, conn, task, pc, request, parts, response, handler, reads,
                readResult, wrote, outcome, stderr>>

(***************************************************************************)
(* State of db.rs and of the pool it builds.                               *)
(*   DB_POOL            the OnceLock: 0 while unset, else the number of    *)
(*                      the init_pool call whose pool it holds             *)
(*   builds             calls of init_pool so far                          *)
(*   ires               what the latest call of init_pool returned         *)
(*   idle_count         idle slots of the pool in DB_POOL                  *)
(*   checked_out_count  slots held by callers (followed tasks and others)  *)
(*   creating           connections being established for the pool         *)
(*   tpc                each followed task: "start", "waiting" (inside     *)
(*                      pool.get()), "holding" or "done"                   *)
(*   tres               what get_connection returned to it                 *)
(*   waited             seconds it has spent inside pool.get()             *)
(*   starved            whether checked_out_count = max_size held at its   *)
(*                      call and no slot has been released while it waits  *)
(*   age                age in seconds of the slot a task holds, a slot     *)
(*                      being new when it is handed out                    *)
(*   discarded          whether the slot the task released was discarded   *)
(*   texit              the exit path on which a holding task ended        *)
(***************************************************************************)
VARIABLES DB_POOL, builds, ires, idle_count, checked_out_count, creating,
          tpc, tres, waited, starved, age, discarded, texit

poolVars == <<DB_POOL, builds, ires, idle_count, checked_out_count, creating,
              tpc, tres, waited, starved, age, discarded, texit>>

ServerInit ==
    /\ acceptor = "binding"
    /\ mainResult = ""
    /\ conn = [c \in Conns |-> "closed"]
    /\ task = [c \in Conns |-> "none"]
    /\ pc = [c \in Conns |-> "none"]
    /\ request = [c \in Conns |-> ""]
    /\ parts = [c \in Conns |-> <<>>]
    /\ response = [c \in Conns |-> ""]
    /\ handler = [c \in Conns |-> "none"]
    /\ reads = [c \in Conns |-> 0]
    /\ readResult = [c \in Conns |-> "none"]
    /\ wrote = [c \in Conns |-> 0]
    /\ outcome = [c \in Conns |-> "none"]
    /\ stderr = [c \in Conns |-> ""]

Running(c) == pc[c] \in {"Reading", "Parsed", "Dispatching", "Writing"}

(***************************************************************************)
(* main.rs: bind, the accept loop and tokio::spawn.                        *)
(***************************************************************************)
\* TcpListener::bind succeeds: main enters the loop.
BindOk ==
    /\ acceptor = "binding"
    /\ acceptor' = "accepting"
    /\ UNCHANGED poolVars
    /\ UNCHANGED <<mainResult, conn, task, pc, request, parts, response, handler, reads, readResult, wrote, outcome, stderr>>

\* TcpListener::bind fails: `?` returns the error from main.
BindErr ==
    /\ acceptor = "binding"
    /\ acceptor' = "exited"
    /\ mainResult' = "Error binding to TCP port"
    /\ UNCHANGED poolVars
    /\ UNCHANGED <<conn, task, pc, request, parts, response, handler, reads, readResult, wrote, outcome, stderr>>

\* A client connects to the bound listener.
Connect(c) ==
    /\ acceptor = "accepting"
    /\ conn[c] = "closed"
    /\ pc[c] = "none"
    /\ conn' = [conn EXCEPT ![c] = "pending"]
    /\ UNCHANGED poolVars
    /\ UNCHANGED <<acceptor, mainResult, task, pc, request, parts, response, handler, reads, readResult, wrote, outcome, stderr>>

\* The task state of a connection just handed to a task running `b`.
Spawned(c, b) ==
    /\ conn' = [conn EXCEPT ![c] = "accepted"]
    /\ task' = [task EXCEPT ![c] = b]
    /\ pc' = [pc EXCEPT ![c] = "Reading"]

\* listener.accept() returns a stream; tokio::spawn starts its task and the
\* loop goes back to accept without keeping the JoinHandle.
AcceptOk(c) ==
    /\ acceptor = "accepting"
    /\ conn[c] = "pending"
    /\ Spawned(c, "main")
    /\ UNCHANGED poolVars
    /\ UNCHANGED <<acceptor, mainResult, request, parts, response, handler, reads, readResult, wrote, outcome, stderr>>

\* listener.accept() returns an error: `?` returns it from main.  The runtime
\* of #[tokio::main] is dropped with main's future, which cancels every task
\* still running.
AcceptErr ==
    /\ acceptor = "accepting"
    /\ acceptor' = "exited"
    /\ mainResult' = "Failed to accept connection"
    /\ pc' = [c \in Conns |-> IF Running(c) THEN "Closed" ELSE pc[c]]
    /\ outcome' = [c \in Conns |-> IF Running(c) THEN "cancelled" ELSE outcome[c]]
    /\ UNCHANGED poolVars
    /\ UNCHANGED <<conn, task, request, parts, response, handler, reads, readResult, wrote, stderr>>

\* An accepted stream is handed to process_request_response in a task of its
\* own (the call site is not part of the sources).
SpawnRouter(c) ==
    /\ acceptor = "accepting"
    /\ conn[c] = "pending"
    /\ Spawned(c, "router")
    /\ UNCHANGED poolVars
    /\ UNCHANGED <<acceptor, mainResult, request, parts, response, handler, reads, readResult, wrote, outcome, stderr>>

(***************************************************************************)
(* The connection task: the block spawned in main.rs and                   *)
(* process_request_response of router.rs.                                  *)
(***************************************************************************)
\* The Ok(0) arm left out: the empty read is handled as a request.
ReadEof_AsRequest(c) ==
    /\ pc[c] = "Reading"
    /\ reads' = [reads EXCEPT ![c] = @ + 1]
    /\ readResult' = [readResult EXCEPT ![c] = "Ok(0)"]
    /\ IF task[c] = "router"
       THEN /\ pc' = [pc EXCEPT ![c] = "Parsed"]
            /\ UNCHANGED response
       ELSE /\ pc' = [pc EXCEPT ![c] = "Writing"]
            /\ response' = [response EXCEPT ![c] = MainResponse]
    /\ UNCHANGED poolVars
    /\ UNCHANGED <<acceptor, mainResult, conn, task, request, parts, handler, wrote, outcome, stderr>>

\* stream.read returns Ok(0).
ReadEof(c) ==
    /\ pc[c] = "Reading"
    /\ reads' = [reads EXCEPT ![c] = @ + 1]
    /\ readResult' = [readResult EXCEPT ![c] = "Ok(0)"]
    /\ pc' = [pc EXCEPT ![c] = "Closed"]
    /\ outcome' = [outcome EXCEPT ![c] = IF task[c] = "router" THEN "Ok(())" ELSE "()"]
    /\ UNCHANGED poolVars
    /\ UNCHANGED <<acceptor, mainResult, conn, task, request, parts, response, handler, wrote, stderr>>

\* stream.read returns Ok(n), n > 0, with the bytes r.  The task of main.rs
\* builds its fixed response; process_request_response keeps the text and
\* process_route splits its request line into `parts`.
ReadOk(c, r) ==
    /\ pc[c] = "Reading"
    /\ Len(r) > 0
    /\ reads' = [reads EXCEPT ![c] = @ + 1]
    /\ readResult' = [readResult EXCEPT ![c] = "Ok(n)"]
    /\ request' = [request EXCEPT ![c] = r]
    /\ IF task[c] = "router"
       THEN /\ pc' = [pc EXCEPT ![c] = "Parsed"]
            /\ parts' = [parts EXCEPT ![c] = RequestParts(r)]
            /\ UNCHANGED response
       ELSE /\ pc' = [pc EXCEPT ![c] = "Writing"]
            /\ response' = [response EXCEPT ![c] = MainResponse]
            /\ UNCHANGED parts
    /\ UNCHANGED poolVars
    /\ UNCHANGED <<acceptor, mainResult, conn, task, handler, wrote, outcome, stderr>>

\* The read error leaves the task through `?` in the accept loop itself.
ReadErr_Propagated(c) ==
    /\ pc[c] = "Reading"
    /\ reads' = [reads EXCEPT ![c] = @ + 1]
    /\ readResult' = [readResult EXCEPT ![c] = "Err"]
    /\ pc' = [d \in Conns |-> IF d = c \/ Running(d) THEN "Closed" ELSE pc[d]]
    /\ stderr' = [stderr EXCEPT ![c] = "Error reading data from client"]
    /\ outcome' = [d \in Conns |-> IF d = c THEN "Err(read)"
                                  ELSE IF Running(d) THEN "cancelled" ELSE outcome[d]]
    /\ acceptor' = "exited"
    /\ mainResult' = "Error reading data from client"
    /\ UNCHANGED poolVars
    /\ UNCHANGED <<conn, task, request, parts, response, handler, wrote>>

\* stream.read returns Err(e).
ReadErr(c) ==
    /\ pc[c] = "Reading"
    /\ reads' = [reads EXCEPT ![c] = @ + 1]
    /\ readResult' = [readResult EXCEPT ![c] = "Err"]
    /\ pc' = [pc EXCEPT ![c] = "Closed"]
    /\ stderr' = [stderr EXCEPT ![c] = "Error reading data from client"]
    /\ outcome' = [outcome EXCEPT ![c] = IF task[c] = "router" THEN "Err(read)" ELSE "()"]
    /\ UNCHANGED poolVars
    /\ UNCHANGED <<acceptor, mainResult, conn, task, request, parts, response, handler, wrote>>

\* process_route, the check of parts.len(): fewer than two parts end the
\* routing with the "Invalid request" triple.
CheckParts(c) ==
    /\ pc[c] = "Parsed"
    /\ IF Len(parts[c]) < 2
       THEN /\ pc' = [pc EXCEPT ![c] = "Writing"]
            /\ response' = [response EXCEPT ![c] =
                    FormatResponse(RouteParts(parts[c], request[c]))]
       ELSE /\ pc' = [pc EXCEPT ![c] = "Dispatching"]
            /\ UNCHANGED response
    /\ UNCHANGED poolVars
    /\ UNCHANGED <<acceptor, mainResult, conn, task, request, parts, handler, reads, readResult, wrote, outcome, stderr>>

\* A lookup handler whose answer counts the requests answered before it.
Dispatch_Counting(c) ==
    /\ pc[c] = "Dispatching"
    /\ handler' = [handler EXCEPT ![c] = MatchArm(parts[c][1], parts[c][2])]
    /\ response' = [response EXCEPT ![c] =
            IF MatchArm(parts[c][1], parts[c][2]) = "handle_get_user"
            THEN FormatResponse(handle_get_user(
                     ToString(Cardinality({d \in Conns : response[d] # ""}))))
            ELSE FormatResponse(RouteParts(parts[c], request[c]))]
    /\ pc' = [pc EXCEPT ![c] = "Writing"]
    /\ UNCHANGED poolVars
    /\ UNCHANGED <<acceptor, mainResult, conn, task, request, parts, reads, readResult, wrote, outcome, stderr>>

\* process_route, the match on (method, path) and the handler it calls.
Dispatch(c) ==
    /\ pc[c] = "Dispatching"
    /\ handler' = [handler EXCEPT ![c] = MatchArm(parts[c][1], parts[c][2])]
    /\ response' = [response EXCEPT ![c] = FormatResponse(RouteParts(parts[c], request[c]))]
    /\ pc' = [pc EXCEPT ![c] = "Writing"]
    /\ UNCHANGED poolVars
    /\ UNCHANGED <<acceptor, mainResult, conn, task, request, parts, reads, readResult, wrote, outcome, stderr>>

\* stream.write_all succeeds; flush is next.
WriteAllOk(c) ==
    /\ pc[c] = "Writing"
    /\ wrote[c] = 0
    /\ wrote' = [wrote EXCEPT ![c] = 1]
    /\ UNCHANGED poolVars
    /\ UNCHANGED <<acceptor, mainResult, conn, task, pc, request, parts, response, handler, reads, readResult, outcome, stderr>>

\* stream.write_all fails: main.rs logs and returns, router.rs returns the error.
WriteAllErr(c) ==
    /\ pc[c] = "Writing"
    /\ wrote[c] = 0
    /\ pc' = [pc EXCEPT ![c] = "Closed"]
    /\ IF task[c] = "router"
       THEN /\ outcome' = [outcome EXCEPT ![c] = "Err(write)"]
            /\ UNCHANGED stderr
       ELSE /\ outcome' = [outcome EXCEPT ![c] = "()"]
            /\ stderr' = [stderr EXCEPT ![c] = "Error writing HTTP response to client"]
    /\ UNCHANGED poolVars
    /\ UNCHANGED <<acceptor, mainResult, conn, task, request, parts, response, handler, reads, readResult, wrote>>

\* After the flush the task reads the next request of the same connection.
FlushOk_KeepAlive(c) ==
    /\ pc[c] = "Writing"
    /\ wrote[c] = 1
    /\ pc' = [pc EXCEPT ![c] = "Reading"]
    /\ wrote' = [wrote EXCEPT ![c] = 0]
    /\ UNCHANGED poolVars
    /\ UNCHANGED <<acceptor, mainResult, conn, task, request, parts, response, handler, reads,
                   readResult, outcome, stderr>>

\* stream.flush succeeds: the task returns and the stream is dropped.
FlushOk(c) ==
    /\ pc[c] = "Writing"
    /\ wrote[c] = 1
    /\ pc' = [pc EXCEPT ![c] = "Closed"]
    /\ outcome' = [outcome EXCEPT ![c] = IF task[c] = "router" THEN "Ok(())" ELSE "()"]
    /\ UNCHANGED poolVars
    /\ UNCHANGED <<acceptor, mainResult, conn, task, request, parts, response, handler, reads, readResult, wrote, stderr>>

\* stream.flush fails.
FlushErr(c) ==
    /\ pc[c] = "Writing"
    /\ wrote[c] = 1
    /\ pc' = [pc EXCEPT ![c] = "Closed"]
    /\ IF task[c] = "router"
       THEN /\ outcome' = [outcome EXCEPT ![c] = "Err(flush)"]
            /\ UNCHANGED stderr
       ELSE /\ outcome' = [outcome EXCEPT ![c] = "()"]
            /\ stderr' = [stderr EXCEPT ![c] = "Error flushing response buffer to client"]
    /\ UNCHANGED poolVars
    /\ UNCHANGED <<acceptor, mainResult, conn, task, request, parts, response, handler, reads, readResult, wrote>>

\* One step of the task of connection c, which reads one of `sent` if it reads.
TaskStep(c, sent) ==
    \/ ReadEof(c)
    \/ \E r \in sent : ReadOk(c, r)
    \/ ReadErr(c)
    \/ CheckParts(c)
    \/ Dispatch(c)
    \/ WriteAllOk(c)
    \/ WriteAllErr(c)
    \/ FlushOk(c)
    \/ FlushErr(c)

ServerNext ==
    \/ BindOk
    \/ BindErr
    \/ AcceptErr
    \/ \E c \in Conns : Connect(c)
    \/ \E c \in Conns : AcceptOk(c)
    \/ \E c \in Conns : SpawnRouter(c)
    \/ \E c \in Conns : TaskStep(c, ServerRequests)

(***************************************************************************)
(* db.rs: the pool init_pool builds, and get_connection.  Durations are    *)
(* in seconds.  The slot bookkeeping behind Pool::get and the drop of a    *)
(* PooledConnection is the pool contract (acquire, release, creation,      *)
(* eviction); db.rs fixes its configuration.                               *)
(***************************************************************************)
\* A builder that omits .max_size(15) and so bounds nothing at 15.
PoolBuilder_MaxSize16 ==
    [max_size |-> 16, min_idle |-> 2, connection_timeout |-> 15,
     idle_timeout |-> 60 * 10, max_lifetime |-> 60 * 30]

\* A builder whose connection_timeout is 30 seconds.
PoolBuilder_Timeout30 ==
    [max_size |-> 15, min_idle |-> 2, connection_timeout |-> 30,
     idle_timeout |-> 60 * 10, max_lifetime |-> 60 * 30]

\* A builder whose max_lifetime is 60 minutes.
PoolBuilder_Lifetime60 ==
    [max_size |-> 15, min_idle |-> 2, connection_timeout |-> 15,
     idle_timeout |-> 60 * 10, max_lifetime |-> 60 * 60]

PoolBuilder ==
    [max_size |-> 15, min_idle |-> 2, connection_timeout |-> 15,
     idle_timeout |-> 60 * 10, max_lifetime |-> 60 * 30]

Tasks == 1..NTasks

\* How a task that holds a PooledConnection ends: it returns, it returns an
\* error, or its future is dropped (cancellation).
ExitPaths == {"return", "error", "cancelled"}

PoolInit ==
    /\ DB_POOL = 0
    /\ builds = 0
    /\ ires = "none"
    /\ idle_count = 0
    /\ checked_out_count = 0
    /\ creating = 0
    /\ tpc = [t \in Tasks |-> "start"]
    /\ tres = [t \in Tasks |-> "none"]
    /\ waited = [t \in Tasks |-> 0]
    /\ starved = [t \in Tasks |-> FALSE]
    /\ age = [t \in Tasks |-> 0]
    /\ discarded = [t \in Tasks |-> FALSE]
    /\ texit = [t \in Tasks |-> "none"]

Waiting == {t \in Tasks : tpc[t] = "waiting"}
Holding == {t \in Tasks : tpc[t] = "holding"}

\* Slots that exist or are being established.
LiveSlots == idle_count + checked_out_count + creating

\* Slots held by callers other than the followed tasks.
OthersOut == checked_out_count - Cardinality(Holding)

Min(a, b) == IF a <= b THEN a ELSE b

\* DB_POOL.set(pool) of a call that overwrites the pool already stored.
InitPoolOk_Overwrite ==
    /\ builds < MaxInits
    /\ builds' = builds + 1
    /\ ires' = "Ok(())"
    /\ DB_POOL' = builds + 1
    /\ idle_count' = PoolBuilder.min_idle
    /\ UNCHANGED <<checked_out_count, creating, tpc, tres, waited, starved, age, discarded, texit>>
    /\ UNCHANGED serverVars

\* init_pool, the build succeeding: the pool starts with min_idle idle slots
\* and DB_POOL.set stores it unless DB_POOL is already set; init_pool returns
\* Ok(()) either way.
InitPoolOk ==
    /\ builds < MaxInits
    /\ builds' = builds + 1
    /\ ires' = "Ok(())"
    /\ IF DB_POOL = 0
       THEN /\ DB_POOL' = builds + 1
            /\ idle_count' = PoolBuilder.min_idle
       ELSE UNCHANGED <<DB_POOL, idle_count>>
    /\ UNCHANGED <<checked_out_count, creating, tpc, tres, waited, starved, age, discarded, texit>>
    /\ UNCHANGED serverVars

\* init_pool, the build failing: `?` returns the error before DB_POOL.set.
InitPoolErr ==
    /\ builds < MaxInits
    /\ builds' = builds + 1
    /\ ires' = "Err(PgError)"
    /\ UNCHANGED <<DB_POOL, idle_count, checked_out_count, creating, tpc, tres, waited,
                   starved, age, discarded, texit>>
    /\ UNCHANGED serverVars

\* get_connection is called: without a pool it returns the error at once,
\* otherwise the task enters pool.get().
GetConnection(t) ==
    /\ tpc[t] = "start"
    /\ IF DB_POOL = 0
       THEN /\ tpc' = [tpc EXCEPT ![t] = "done"]
            /\ tres' = [tres EXCEPT ![t] = "Err(The pool is not initialized)"]
            /\ UNCHANGED starved
       ELSE /\ tpc' = [tpc EXCEPT ![t] = "waiting"]
            /\ starved' = [starved EXCEPT ![t] = (checked_out_count = PoolBuilder.max_size)]
            /\ UNCHANGED tres
    /\ UNCHANGED <<DB_POOL, builds, ires, idle_count, checked_out_count, creating, waited,
                   age, discarded, texit>>
    /\ UNCHANGED serverVars

\* pool.get() hands an idle slot to the task (its wait is over).
PoolGrant(t) ==
    /\ tpc[t] = "waiting"
    /\ idle_count > 0
    /\ idle_count' = idle_count - 1
    /\ checked_out_count' = checked_out_count + 1
    /\ tpc' = [tpc EXCEPT ![t] = "holding"]
    /\ tres' = [tres EXCEPT ![t] = "Ok(conn)"]
    /\ waited' = [waited EXCEPT ![t] = 0]
    /\ UNCHANGED <<DB_POOL, builds, ires, creating, starved, age, discarded, texit>>
    /\ UNCHANGED serverVars

\* The pool starts establishing a connection: for a waiting task when none
\* is idle, or to get back to min_idle; never beyond max_size.
PoolStartCreate ==
    /\ DB_POOL # 0
    /\ LiveSlots < PoolBuilder.max_size
    /\ \/ idle_count = 0 /\ creating < Cardinality(Waiting)
       \/ idle_count + creating < PoolBuilder.min_idle
    /\ creating' = creating + 1
    /\ UNCHANGED <<DB_POOL, builds, ires, idle_count, checked_out_count, tpc, tres, waited,
                   starved, age, discarded, texit>>
    /\ UNCHANGED serverVars

\* The connection is established and joins the idle set.
PoolCreateOk ==
    /\ creating > 0
    /\ creating' = creating - 1
    /\ idle_count' = idle_count + 1
    /\ UNCHANGED <<DB_POOL, builds, ires, checked_out_count, tpc, tres, waited, starved,
                   age, discarded, texit>>
    /\ UNCHANGED serverVars

\* The connection cannot be established: the slot is given up.
PoolCreateFail ==
    /\ creating > 0
    /\ creating' = creating - 1
    /\ UNCHANGED <<DB_POOL, builds, ires, idle_count, checked_out_count, tpc, tres, waited,
                   starved, age, discarded, texit>>
    /\ UNCHANGED serverVars

\* The clock advances, never past the deadline of a waiting task.
Tick ==
    /\ Waiting # {}
    /\ LET left == {PoolBuilder.connection_timeout - waited[t] : t \in Waiting}
           d == Min(TickSeconds, CHOOSE m \in left : \A n \in left : m <= n)
       IN  /\ d > 0
           /\ waited' = [t \in Tasks |-> IF t \in Waiting THEN waited[t] + d ELSE waited[t]]
    /\ UNCHANGED <<DB_POOL, builds, ires, idle_count, checked_out_count, creating, tpc, tres,
                   starved, age, discarded, texit>>
    /\ UNCHANGED serverVars

\* The slot a task holds grows older by AgeMinutes while it is checked out.
Age(t) ==
    /\ tpc[t] = "holding"
    /\ age[t] <= PoolBuilder.max_lifetime
    /\ age' = [age EXCEPT ![t] = @ + 60 * AgeMinutes]
    /\ UNCHANGED <<DB_POOL, builds, ires, idle_count, checked_out_count, creating, tpc, tres,
                   waited, starved, discarded, texit>>
    /\ UNCHANGED serverVars

\* connection_timeout has passed inside pool.get(): it returns the timeout
\* error, which get_connection returns as Err(e.to_string()).
PoolTimeout(t) ==
    /\ tpc[t] = "waiting"
    /\ waited[t] >= PoolBuilder.connection_timeout
    /\ tpc' = [tpc EXCEPT ![t] = "done"]
    /\ tres' = [tres EXCEPT ![t] = "Err(pool exhausted)"]
    /\ UNCHANGED <<DB_POOL, builds, ires, idle_count, checked_out_count, creating, waited,
                   starved, age, discarded, texit>>
    /\ UNCHANGED serverVars

\* A released slot goes back to the idle set, or is discarded when it has
\* outlived max_lifetime (expired).
SlotReleased(expired) ==
    /\ checked_out_count' = checked_out_count - 1
    /\ idle_count' = IF expired THEN idle_count ELSE idle_count + 1
    /\ starved' = [t \in Tasks |-> IF t \in Waiting THEN FALSE ELSE starved[t]]

\* A cancelled task's PooledConnection is forgotten instead of dropped: the
\* slot stays checked out.
Release_LeakOnCancel(t) ==
    /\ tpc[t] = "holding"
    /\ \E how \in ExitPaths :
          /\ texit' = [texit EXCEPT ![t] = how]
          /\ IF how = "cancelled"
             THEN UNCHANGED <<checked_out_count, idle_count, starved>>
             ELSE SlotReleased(age[t] > PoolBuilder.max_lifetime)
    /\ discarded' = [discarded EXCEPT ![t] = (age[t] > PoolBuilder.max_lifetime)]
    /\ age' = [age EXCEPT ![t] = 0]
    /\ tpc' = [tpc EXCEPT ![t] = "done"]
    /\ UNCHANGED <<DB_POOL, builds, ires, creating, tres, waited>>
    /\ UNCHANGED serverVars

\* The task ends on one of its exit paths; its PooledConnection is dropped
\* with it, which releases the slot.
Release(t) ==
    /\ tpc[t] = "holding"
    /\ \E how \in ExitPaths : texit' = [texit EXCEPT ![t] = how]
    /\ SlotReleased(age[t] > PoolBuilder.max_lifetime)
    /\ discarded' = [discarded EXCEPT ![t] = (age[t] > PoolBuilder.max_lifetime)]
    /\ age' = [age EXCEPT ![t] = 0]
    /\ tpc' = [tpc EXCEPT ![t] = "done"]
    /\ UNCHANGED <<DB_POOL, builds, ires, creating, tres, waited>>
    /\ UNCHANGED serverVars

\* Another caller obtains a slot: an idle one, or a new one below max_size.
OtherAcquire ==
    /\ DB_POOL # 0
    /\ IF idle_count > 0
       THEN idle_count' = idle_count - 1
       ELSE LiveSlots < PoolBuilder.max_size /\ UNCHANGED idle_count
    /\ checked_out_count' = checked_out_count + 1
    /\ UNCHANGED <<DB_POOL, builds, ires, creating, tpc, tres, waited, starved, age, discarded, texit>>
    /\ UNCHANGED serverVars

\* Another caller drops its PooledConnection.
OtherRelease ==
    /\ OthersOut > 0
    /\ \E expired \in BOOLEAN : SlotReleased(expired)
    /\ UNCHANGED <<DB_POOL, builds, ires, creating, tpc, tres, waited, age, discarded, texit>>
    /\ UNCHANGED serverVars

\* An idle slot past idle_timeout or max_lifetime is evicted.
Evict ==
    /\ idle_count > 0
    /\ idle_count' = idle_count - 1
    /\ UNCHANGED <<DB_POOL, builds, ires, checked_out_count, creating, tpc, tres, waited,
                   starved, age, discarded, texit>>
    /\ UNCHANGED serverVars

PoolNext ==
    \/ InitPoolOk
    \/ InitPoolErr
    \/ PoolStartCreate
    \/ PoolCreateOk
    \/ PoolCreateFail
    \/ Tick
    \/ OtherAcquire
    \/ OtherRelease
    \/ Evict
    \/ \E t \in Tasks : GetConnection(t)
    \/ \E t \in Tasks : PoolGrant(t)
    \/ \E t \in Tasks : Age(t)
    \/ \E t \in Tasks : PoolTimeout(t)
    \/ \E t \in Tasks : Release(t)

(***************************************************************************)
(* Specifications.                                                         *)
(*   Spec       the server: acceptor and connection tasks                  *)
(*   FairSpec   the server, the acceptor being scheduled whenever a        *)
(*              connection is pending                                      *)
(*   RouteSpec  one connection served by process_request_response, over    *)
(*              every request of Requests                                  *)
(*   PoolSpec   the pool and the callers of get_connection                 *)
(*   SessionSpec  every connection served by process_request_response,     *)
(*              over the requests of UserRequests                          *)
(*   LoadSpec   the server under concurrent GET /users requests, acceptor  *)
(*              and tasks being scheduled fairly                           *)
(***************************************************************************)
vars == <<serverVars, poolVars>>

Init == ServerInit /\ PoolInit
Next == ServerNext
Spec == Init /\ [][Next]_vars

FairSpec == Spec /\ \A c \in Conns : WF_vars(AcceptOk(c) \/ SpawnRouter(c))

\* Connection 1 has been accepted and handed to process_request_response.
RouteInit ==
    /\ acceptor = "accepting"
    /\ mainResult = ""
    /\ conn = [c \in Conns |-> IF c = 1 THEN "accepted" ELSE "closed"]
    /\ task = [c \in Conns |-> IF c = 1 THEN "router" ELSE "none"]
    /\ pc = [c \in Conns |-> IF c = 1 THEN "Reading" ELSE "none"]
    /\ request = [c \in Conns |-> ""]
    /\ parts = [c \in Conns |-> <<>>]
    /\ response = [c \in Conns |-> ""]
    /\ handler = [c \in Conns |-> "none"]
    /\ reads = [c \in Conns |-> 0]
    /\ readResult = [c \in Conns |-> "none"]
    /\ wrote = [c \in Conns |-> 0]
    /\ outcome = [c \in Conns |-> "none"]
    /\ stderr = [c \in Conns |-> ""]
    /\ PoolInit

RouteNext == TaskStep(1, Requests)
RouteSpec == RouteInit /\ [][RouteNext]_vars

PoolSpec == Init /\ [][PoolNext]_vars

\* Every connection has been accepted and handed to process_request_response.
SessionInit ==
    /\ acceptor = "accepting"
    /\ mainResult = ""
    /\ conn = [c \in Conns |-> "accepted"]
    /\ task = [c \in Conns |-> "router"]
    /\ pc = [c \in Conns |-> "Reading"]
    /\ request = [c \in Conns |-> ""]
    /\ parts = [c \in Conns |-> <<>>]
    /\ response = [c \in Conns |-> ""]
    /\ handler = [c \in Conns |-> "none"]
    /\ reads = [c \in Conns |-> 0]
    /\ readResult = [c \in Conns |-> "none"]
    /\ wrote = [c \in Conns |-> 0]
    /\ outcome = [c \in Conns |-> "none"]
    /\ stderr = [c \in Conns |-> ""]
    /\ PoolInit

SessionNext == \E c \in Conns : TaskStep(c, UserRequests)
SessionSpec == SessionInit /\ [][SessionNext]_vars

LoadNext ==
    \/ BindOk
    \/ BindErr
    \/ AcceptErr
    \/ \E c \in Conns : Connect(c)
    \/ \E c \in Conns : AcceptOk(c)
    \/ \E c \in Conns : SpawnRouter(c)
    \/ \E c \in Conns : TaskStep(c, LoadRequests)

\* The runtime polls the acceptor and every spawned task that can step.
LoadSpec ==
    /\ Init
    /\ [][LoadNext]_vars
    /\ \A c \in Conns : WF_vars(AcceptOk(c) \/ SpawnRouter(c))
    /\ \A c \in Conns : WF_vars(TaskStep(c, LoadRequests))

(***************************************************************************)
(* What a client reads from a response, and the routes the interface       *)
(* documents.                                                              *)
(***************************************************************************)
\* The status code of a response: the second token of its status line.
StatusOf(resp) ==
    LET tokens == SplitWhitespace(FirstLine(resp))
    IN  IF Len(tokens) >= 2 THEN tokens[2] ELSE ""

\* A request line with at least a method and a path.
WellFormed(req) == Len(RequestParts(req)) >= 2

MethodOf(req) == RequestParts(req)[1]
PathOf(req) == RequestParts(req)[2]

\* A decimal integer: an optional sign and at least one digit.
IsInteger(x) ==
    LET digits == IF Len(x) > 0 /\ CharAt(x, 1) \in {"+", "-"} THEN SubSeq(x, 2, Len(x)) ELSE x
    IN  /\ Len(digits) > 0
        /\ \A i \in 1..Len(digits) :
              CharAt(digits, i) \in {"0", "1", "2", "3", "4", "5", "6", "7", "8", "9"}

\* The path is /users/{x} for a single segment x (possibly empty).
IsUserPath(path) ==
    /\ StartsWith(path, "/users/")
    /\ Find(StripPrefixOrEmpty(path, "/users/"), "/") = -1

\* GET /, GET /users, GET /users/{id}, POST /users, GET /products.
RegisteredRoute(method, path) ==
    \/ method = "GET" /\ path \in {"/", "/users", "/products"}
    \/ method = "GET" /\ IsUserPath(path)
    \/ method = "POST" /\ path = "/users"

\* The limits the pool is documented to have.
StatedMaxSize == 15
StatedConnectionTimeout == 15
StatedMaxLifetime == 1800

(***************************************************************************)
(* Claims.                                                                 *)
(***************************************************************************)

\* C1: in every state of the pool built by init_pool, whatever the
\* interleaving of get_connection, release, slot creation and eviction,
\* idle_count + checked_out_count <= 15, hence checked_out_count <= 15, and
\* neither count is negative.
C1_PoolBounded ==
    /\ idle_count >= 0
    /\ checked_out_count >= 0
    /\ idle_count + checked_out_count <= StatedMaxSize
    /\ checked_out_count <= StatedMaxSize

\* C1: all 15 slots are checked out, one of them by a followed task, and
\* nothing is idle.
C1_Witness ==
    /\ checked_out_count = StatedMaxSize
    /\ idle_count = 0
    /\ \E t \in Tasks : tpc[t] = "holding"

\* C2: a get_connection issued while checked_out_count = 15, with no slot
\* released since, waits at most 15 seconds, can then only end, and ends
\* by returning the pool-exhausted error as a value after exactly those
\* 15 seconds; it is never given a slot, and never more than 15 slots are
\* checked out.
C2_ExhaustedAfterTimeout ==
    /\ checked_out_count <= StatedMaxSize
    /\ \A t \in Tasks :
          /\ tpc[t] = "waiting" => waited[t] <= StatedConnectionTimeout
          /\ (tpc[t] = "waiting" /\ waited[t] = StatedConnectionTimeout)
                => (ENABLED PoolTimeout(t) /\ ~ENABLED Tick)
          /\ tres[t] = "Err(pool exhausted)" => waited[t] = StatedConnectionTimeout
          /\ starved[t] =>
                \/ tpc[t] = "waiting"
                \/ tpc[t] = "done" /\ tres[t] = "Err(pool exhausted)"

\* C2: a task that called with all 15 slots checked out, saw no release and
\* got the pool-exhausted error.
C2_Witness ==
    \E t \in Tasks :
        /\ starved[t]
        /\ tpc[t] = "done"
        /\ tres[t] = "Err(pool exhausted)"
        /\ checked_out_count = StatedMaxSize

\* C3: every response written for a well-formed request whose (method,
\* path) is not a registered route has status 404.
C3_UnregisteredIs404 ==
    \A c \in Conns :
        (wrote[c] = 1 /\ WellFormed(request[c])
            /\ ~RegisteredRoute(MethodOf(request[c]), PathOf(request[c])))
        => StatusOf(response[c]) = "404"

\* C4: every response to GET /users/{x} with x not an integer has status 400.
C4_NonIntegerIdIs400 ==
    \A c \in Conns :
        (task[c] = "router" /\ response[c] # "" /\ WellFormed(request[c])
            /\ MethodOf(request[c]) = "GET" /\ IsUserPath(PathOf(request[c]))
            /\ ~IsInteger(StripPrefixOrEmpty(PathOf(request[c]), "/users/")))
        => StatusOf(response[c]) = "400"

\* The order of the states of a connection task.
Rank(p) ==
    CASE p = "none" -> 0
      [] p = "Reading" -> 1
      [] p = "Parsed" -> 2
      [] p = "Dispatching" -> 3
      [] p = "Writing" -> 4
      [] p = "Closed" -> 5

\* C5: each accepted connection serves one request/response cycle: its
\* task only moves forward through Reading, Parsed, Dispatching, Writing,
\* Closed; it reads at most once and writes at most one response, and only
\* after a successful non-empty read; while it runs it can always take a
\* step, it has returned only when Closed, and once Closed it takes no
\* step and reads nothing more, whatever headers the request carried.
C5_OneCycle ==
    /\ [](\A c \in Conns :
            /\ reads[c] <= 1
            /\ wrote[c] <= 1
            /\ (wrote[c] = 1 \/ response[c] # "")
                  => (readResult[c] = "Ok(n)" /\ Len(request[c]) > 0)
            /\ pc[c] \in {"Parsed", "Dispatching", "Writing"} => readResult[c] = "Ok(n)"
            /\ outcome[c] # "none" => pc[c] = "Closed"
            /\ Running(c) => ENABLED TaskStep(c, ServerRequests)
            /\ pc[c] = "Closed" => ~ENABLED TaskStep(c, ServerRequests))
    /\ [][\A c \in Conns :
            /\ Rank(pc'[c]) >= Rank(pc[c])
            /\ pc[c] = "Closed" =>
                  (pc'[c] = "Closed" /\ reads'[c] = reads[c] /\ wrote'[c] = wrote[c]
                   /\ response'[c] = response[c])]_vars

\* C5: a task of process_request_response has gone through the whole cycle
\* for a request that asked for keep-alive, and is Closed.
C5_Witness ==
    \E c \in Conns :
        /\ task[c] = "router"
        /\ request[c] = "GET / HTTP/1.1\r\nConnection: keep-alive\r\n\r\n"
        /\ handler[c] = "index"
        /\ reads[c] = 1
        /\ wrote[c] = 1
        /\ outcome[c] = "Ok(())"
        /\ pc[c] = "Closed"

\* C6: a pending connection is eventually accepted, whatever the state of
\* the tasks spawned before.
C6_PendingEventuallyAccepted ==
    \A c \in Conns : (conn[c] = "pending") ~> (conn[c] = "accepted")

\* C7: a failed accept leaves the acceptor in its loop, and main returns
\* only for a bind error.
C7_AcceptErrorSurvived ==
    /\ mainResult = "Failed to accept connection" => acceptor = "accepting"
    /\ acceptor = "exited" => mainResult = "Error binding to TCP port"

\* A task whose read, write or flush failed.
Failed(c) ==
    \/ stderr[c] # ""
    \/ outcome[c] \in {"Err(read)", "Err(write)", "Err(flush)"}

\* Everything that belongs to the task of connection d.
TaskState(d) ==
    <<conn[d], task[d], pc[d], request[d], parts[d], response[d], handler[d], reads[d],
      readResult[d], wrote[d], outcome[d], stderr[d]>>

\* C8: the step in which a task's read, write or flush fails closes that
\* task and changes nothing else: not the acceptor, not what main returned,
\* no other connection and no other task.
C8_ErrorConfined ==
    [][\A c \in Conns :
          (~Failed(c) /\ Failed(c)') =>
              /\ pc'[c] = "Closed"
              /\ acceptor' = acceptor
              /\ mainResult' = mainResult
              /\ \A d \in Conns \ {c} : TaskState(d)' = TaskState(d)]_vars

\* C8: one task has failed and is Closed while the acceptor is in its loop
\* and another task is still running.
C8_Witness ==
    \E c, d \in Conns :
        /\ c # d
        /\ Failed(c)
        /\ pc[c] = "Closed"
        /\ Running(d)
        /\ acceptor = "accepting"

\* C9: a task whose read returned zero bytes is Closed at once: it has
\* nothing parsed, dispatched, built or written, has reported no error and
\* returned normally, and no pool slot is checked out.
C9_ZeroByteRead ==
    \A c \in Conns :
        readResult[c] = "Ok(0)" =>
            /\ pc[c] = "Closed"
            /\ request[c] = ""
            /\ handler[c] = "none"
            /\ response[c] = ""
            /\ wrote[c] = 0
            /\ stderr[c] = ""
            /\ outcome[c] = (IF task[c] = "router" THEN "Ok(())" ELSE "()")
            /\ checked_out_count = 0
            /\ \A t \in Tasks : tpc[t] = "start"

\* C9: a task of process_request_response and a task of main.rs have both
\* read zero bytes.
C9_Witness ==
    \E c, d \in Conns :
        /\ readResult[c] = "Ok(0)" /\ task[c] = "router"
        /\ readResult[d] = "Ok(0)" /\ task[d] = "main"

\* C10: a request line with fewer than two tokens is answered with status
\* 400 and reaches no handler.
C10_MalformedIs400 ==
    \A c \in Conns :
        (task[c] = "router" /\ response[c] # "" /\ ~WellFormed(request[c]))
        => (StatusOf(response[c]) = "400" /\ handler[c] = "none")

\* C11: a pool handle held by a task is released on every exit path of the
\* task (return, error return, cancellation): whenever a task stops holding it
\* has ended on one of the three paths, its slot is no longer checked out and
\* the pool has not lost it other than by discarding it; every holder is
\* counted, so with every holder gone none of their slots is checked out.
C11_HandleReleasedOnExit ==
    /\ [](/\ checked_out_count >= Cardinality(Holding)
          /\ \A t \in Tasks : texit[t] # "none" => tpc[t] = "done" /\ tres[t] = "Ok(conn)")
    /\ [][\A t \in Tasks :
            (tpc[t] = "holding" /\ tpc'[t] # "holding") =>
                /\ tpc'[t] = "done"
                /\ texit'[t] \in ExitPaths
                /\ checked_out_count' = checked_out_count - 1
                /\ idle_count' \in {idle_count, idle_count + 1}
                /\ creating' = creating]_vars

\* A task ended by cancellation while holding: nothing is checked out any more.
C11_Witness ==
    \E t \in Tasks :
        /\ tpc[t] = "done"
        /\ texit[t] = "cancelled"
        /\ tres[t] = "Ok(conn)"
        /\ checked_out_count = 0

\* C12: a slot older than max_lifetime (30 minutes) when it is released is
\* discarded, not returned to the idle set, so the idle set acquire takes from
\* never holds it; a younger slot goes back to the idle set.
C12_ExpiredSlotDiscarded ==
    [][\A t \in Tasks :
          (tpc[t] = "holding" /\ tpc'[t] = "done") =>
              /\ discarded'[t] = (age[t] > StatedMaxLifetime)
              /\ checked_out_count' = checked_out_count - 1
              /\ idle_count' = IF age[t] > StatedMaxLifetime THEN idle_count
                               ELSE idle_count + 1]_vars

\* A task has released a slot older than max_lifetime and no slot is left idle.
C12_Witness ==
    \E t \in Tasks :
        /\ tpc[t] = "done"
        /\ discarded[t]
        /\ idle_count = 0
        /\ checked_out_count = 0
        /\ creating = 0

\* C19: DB_POOL is set at most once: it holds the pool of the first call of
\* init_pool that reached DB_POOL.set and never changes afterwards; such a
\* call made later returns Ok(()) and leaves DB_POOL as it is; get_connection
\* returns "The pool is not initialized" exactly when DB_POOL is unset.
C19_SetOnce ==
    /\ [](/\ DB_POOL \in 0..builds
          /\ DB_POOL = 0 => ires # "Ok(())")
    /\ [][/\ DB_POOL # 0 => DB_POOL' = DB_POOL
          /\ (builds' = builds + 1 /\ ires' = "Ok(())") =>
                DB_POOL' = (IF DB_POOL = 0 THEN builds' ELSE DB_POOL)
          /\ (builds' = builds + 1 /\ ires' # "Ok(())") => DB_POOL' = DB_POOL
          /\ \A t \in Tasks :
                (tpc[t] = "start" /\ tpc'[t] # "start") =>
                    ((tres'[t] = "Err(The pool is not initialized)") <=> (DB_POOL = 0))]_vars

\* The second call of init_pool returned Ok(()) and DB_POOL still holds the
\* pool of the first; a get_connection before the first had found no pool.
C19_Witness ==
    /\ builds = 2
    /\ DB_POOL = 1
    /\ ires = "Ok(())"
    /\ \E t \in Tasks : tres[t] = "Err(The pool is not initialized)"

\* The text after the first blank line ("\r\n\r\n") of a message, "" when it
\* has none.
AfterBlankLine(msg) ==
    LET seps == {i \in 1..(Len(msg) - 3) : SubSeq(msg, i, i + 3) = "\r\n\r\n"}
    IN  IF seps = {} THEN ""
        ELSE SubSeq(msg, (CHOOSE i \in seps : \A j \in seps : i <= j) + 4, Len(msg))

\* The value of a string of decimal digits.
RECURSIVE ParseNat(_)
ParseNat(s) ==
    IF s = "" THEN 0
    ELSE 10 * ParseNat(SubSeq(s, 1, Len(s) - 1))
             + (CHOOSE d \in 0..9 : ToString(d) = CharAt(s, Len(s)))

\* The value of the Content-Length header of a response, -1 without one.
ContentLengthOf(resp) ==
    LET at == Find(resp, "Content-Length: ")
        rest == SubSeq(resp, at + 17, Len(resp))
        stop == Find(rest, "\r\n")
    IN  IF at = -1 \/ stop < 1 THEN -1 ELSE ParseNat(SubSeq(rest, 1, stop))

\* The handler the documented route table selects: exact routes first, then
\* GET "/users/" followed by one segment.
SpecifiedArm(method, path) ==
    IF method = "GET" /\ path = "/" THEN "index"
    ELSE IF method = "GET" /\ path = "/users" THEN "handle_get_all_users"
    ELSE IF method = "POST" /\ path = "/users" THEN "handle_create_user"
    ELSE IF method = "GET" /\ path = "/products" THEN "handle_get_all_products"
    ELSE IF method = "GET" /\ IsUserPath(path) THEN "handle_get_user"
    ELSE "not_found"

\* C13: with concurrent GET /users requests, each in its own task and all
\* scheduled fairly, every request that was read is eventually answered (or
\* its own read, write or flush failed), and never more than max_size slots
\* are checked out.
C13_LoadCompletes ==
    /\ [](checked_out_count <= StatedMaxSize)
    /\ \A c \in Conns :
          (readResult[c] = "Ok(n)") ~> (pc[c] = "Closed" /\ (wrote[c] = 1 \/ Failed(c)))

\* C14: the handler is selected by (method, path) alone: an exact route, else
\* for GET "/users/" followed by a single segment the user lookup with that
\* segment as its parameter, else NotFound.
C14_DispatchByRouteTable ==
    \A c \in Conns :
        (task[c] = "router" /\ handler[c] # "none") =>
            /\ handler[c] = SpecifiedArm(parts[c][1], parts[c][2])
            /\ handler[c] = "handle_get_user" =>
                  response[c] = FormatResponse(
                      handle_get_user(StripPrefixOrEmpty(parts[c][2], "/users/")))

\* C15: once a POST /users with the body {"name":"Ada","age":30} has been
\* answered 200, every GET /users dispatched afterwards lists Ada.
C15_CreatedUserListed ==
    [][\A c, d \in Conns :
          (/\ c # d
           /\ task[c] = "router"
           /\ handler[c] = "handle_create_user"
           /\ AfterBlankLine(request[c]) = "{\"name\":\"Ada\",\"age\":30}"
           /\ wrote[c] = 1
           /\ StatusOf(response[c]) = "200"
           /\ handler[d] = "none"
           /\ handler'[d] = "handle_get_all_users")
          => Find(AfterBlankLine(response'[d]), "Ada") # -1]_vars

\* C16: GET /users/{id} with an integer id, no user having been created, is
\* answered 404 with the body {"message":"User not found"}.
C16_AbsentUserIs404 ==
    \A c \in Conns :
        (/\ task[c] = "router"
         /\ response[c] # ""
         /\ WellFormed(request[c])
         /\ MethodOf(request[c]) = "GET"
         /\ IsUserPath(PathOf(request[c]))
         /\ IsInteger(StripPrefixOrEmpty(PathOf(request[c]), "/users/")))
        => /\ StatusOf(response[c]) = "404"
           /\ AfterBlankLine(response[c]) = "{\"message\":\"User not found\"}"

\* C17: two GET /users/{id} requests for the same id are answered with the
\* same status and body, whatever was answered between them (other reads, and
\* writes as well, so in particular with no write between them).
C17_LookupRepeatable ==
    \A c, d \in Conns :
        (/\ handler[c] = "handle_get_user"
         /\ handler[d] = "handle_get_user"
         /\ parts[c][2] = parts[d][2])
        => /\ StatusOf(response[c]) = StatusOf(response[d])
           /\ AfterBlankLine(response[c]) = AfterBlankLine(response[d])

\* Two different requests for /users/42 have been answered.
C17_Witness ==
    \E c, d \in Conns :
        /\ c # d
        /\ handler[c] = "handle_get_user"
        /\ handler[d] = "handle_get_user"
        /\ parts[c][2] = "/users/42"
        /\ parts[d][2] = "/users/42"
        /\ request[c] # request[d]
        /\ wrote[c] = 1
        /\ wrote[d] = 1

\* C18: the body handed to the creation handler, which echoes it, is the text
\* after the first "\r\n\r\n" of the request, and empty when the request has
\* no "\r\n\r\n".
C18_BodyAfterFirstSeparator ==
    \A c \in Conns :
        (task[c] = "router" /\ handler[c] = "handle_create_user") =>
            AfterBlankLine(response[c]) = AfterBlankLine(request[c])

\* A creation request whose body holds a second "\r\n\r\n" has been answered.
C18_Witness ==
    \E c \in Conns :
        /\ handler[c] = "handle_create_user"
        /\ wrote[c] = 1
        /\ AfterBlankLine(request[c]) = "a\r\n\r\nb"
        /\ AfterBlankLine(response[c]) = "a\r\n\r\nb"

\* C20: the Content-Length header of every response equals the length of the
\* body after the blank line: the responses process_request_response builds
\* for every route outcome and echoed body, and the response of main.rs.
C20_ContentLengthIsBodyLength ==
    /\ ContentLengthOf(MainResponse) = Len(AfterBlankLine(MainResponse))
    /\ \A c \in Conns :
          response[c] # "" => ContentLengthOf(response[c]) = Len(AfterBlankLine(response[c]))

\* A creation request has been answered with its body echoed.
C20_Witness ==
    \E c \in Conns :
        /\ handler[c] = "handle_create_user"
        /\ wrote[c] = 1
        /\ ContentLengthOf(response[c]) > 0
        /\ AfterBlankLine(response[c]) = "{\"name\":\"Ada\",\"age\":30}"


====
